---------------------------- MODULE Spec2Model ----------------------------
(***************************************************************************)
(* The NYC collisions data-wrangling pipeline of                           *)
(* "Assignments/8- Pandas Assignment/nyc_collisions_wrangling.py":         *)
(* load_raw, handle_missing_values, correct_types, clean_text,             *)
(* filter_and_group, statistical_summaries, export_raw_and_clean, main.    *)
(*                                                                         *)
(* A text value is a sequence of one-character strings, so that trimming,  *)
(* title-casing, parsing and literal comparison are computed character by  *)
(* character.  A cell is a record [k, n, d, s]: k is the kind ("null",     *)
(* "int", "float", "str", "date", "time"), n/d the numeric value (d a      *)
(* power of ten), s the text.  A DataFrame is [cols, dtype, rows].         *)
(***************************************************************************)
EXTENDS Integers, Sequences, FiniteSets, TLC

(***************************************************************************)
(* Characters and text                                                     *)
(***************************************************************************)
\* The characters of the model in code-point order.
CharOrder ==
  << "\t", " ", "-", ".", "/",
     "0", "1", "2", "3", "4", "5", "6", "7", "8", "9", ":",
     "A", "B", "C", "D", "E", "F", "G", "H", "I", "J", "K", "L", "M",
     "N", "O", "P", "Q", "R", "S", "T", "U", "V", "W", "X", "Y", "Z",
     "a", "b", "c", "d", "e", "f", "g", "h", "i", "j", "k", "l", "m",
     "n", "o", "p", "q", "r", "s", "t", "u", "v", "w", "x", "y", "z" >>

Range(f) == {f[i] : i \in DOMAIN f}

OrdOf == [c \in Range(CharOrder) |-> CHOOSE i \in 1..Len(CharOrder) : CharOrder[i] = c]
Ord(c) == OrdOf[c]

Whitespace == {"\t", " "}
Digits == {"0", "1", "2", "3", "4", "5", "6", "7", "8", "9"}
IsUpper(c) == Ord(c) \in Ord("A")..Ord("Z")
IsLower(c) == Ord(c) \in Ord("a")..Ord("z")
IsAlpha(c) == IsUpper(c) \/ IsLower(c)
ToUpper(c) == IF IsLower(c) THEN CharOrder[Ord(c) - Ord("a") + Ord("A")] ELSE c
ToLower(c) == IF IsUpper(c) THEN CharOrder[Ord(c) - Ord("A") + Ord("a")] ELSE c

\* str.strip(): drop the whitespace at both ends.
RECURSIVE LStrip(_)
LStrip(s) == IF s # <<>> /\ Head(s) \in Whitespace THEN LStrip(Tail(s)) ELSE s
RECURSIVE RStrip(_)
RStrip(s) ==
  IF s # <<>> /\ s[Len(s)] \in Whitespace THEN RStrip(SubSeq(s, 1, Len(s) - 1)) ELSE s
StrStrip(s) == RStrip(LStrip(s))

\* str.title(): a letter that follows a non-letter is upper-cased, any
\* other letter is lower-cased.
StrTitleOff(s) == [i \in DOMAIN s |-> ToUpper(s[i])]
StrTitle(s) ==
  [i \in DOMAIN s |->
     IF i = 1 \/ ~IsAlpha(s[i - 1]) THEN ToUpper(s[i]) ELSE ToLower(s[i])]

\* Lexicographic order on text (the order groupby sorts its keys in).
RECURSIVE StrLess(_, _)
StrLess(a, b) ==
  IF b = <<>> THEN FALSE
  ELSE IF a = <<>> THEN TRUE
  ELSE IF Head(a) = Head(b) THEN StrLess(Tail(a), Tail(b))
  ELSE Ord(Head(a)) < Ord(Head(b))

(***************************************************************************)
(* Numbers in text                                                         *)
(***************************************************************************)
IsDigits(s) == s # <<>> /\ \A i \in DOMAIN s : s[i] \in Digits

RECURSIVE DigitsVal(_)
DigitsVal(s) ==
  IF s = <<>> THEN 0
  ELSE DigitsVal(SubSeq(s, 1, Len(s) - 1)) * 10 + (Ord(s[Len(s)]) - Ord("0"))

RECURSIVE Pow10(_)
Pow10(k) == IF k = 0 THEN 1 ELSE 10 * Pow10(k - 1)

Unsigned(s) == IF s # <<>> /\ Head(s) = "-" THEN Tail(s) ELSE s
Sign(s) == IF s # <<>> /\ Head(s) = "-" THEN -1 ELSE 1
DotAt(s) == {i \in DOMAIN s : s[i] = "."}

IsIntStr(s) == IsDigits(Unsigned(s))
\* digits "." digits (the decimal forms of the model's inputs)
IsFloatStr(s) ==
  LET u == Unsigned(s) IN
    /\ Cardinality(DotAt(u)) = 1
    /\ LET p == CHOOSE i \in DotAt(u) : TRUE IN
         IsDigits(SubSeq(u, 1, p - 1)) /\ IsDigits(SubSeq(u, p + 1, Len(u)))
IsNumStr(s) == IsIntStr(s) \/ IsFloatStr(s)

(***************************************************************************)
(* Cells                                                                   *)
(***************************************************************************)
Null == [k |-> "null", n |-> 0, d |-> 1, s |-> <<>>]
IntCell(i) == [k |-> "int", n |-> i, d |-> 1, s |-> <<>>]
RECURSIVE FloatCell(_, _)
FloatCell(n, d) ==
  IF d > 1 /\ n % 10 = 0 THEN FloatCell(n \div 10, d \div 10)
  ELSE [k |-> "float", n |-> n, d |-> d, s |-> <<>>]
StrCell(s) == [k |-> "str", n |-> 0, d |-> 1, s |-> s]
DateCell(y, m, dd) == [k |-> "date", n |-> y * 10000 + m * 100 + dd, d |-> 1, s |-> <<>>]
TimeCell(h, mi) == [k |-> "time", n |-> h * 100 + mi, d |-> 1, s |-> <<>>]

IsNull(c) == c.k = "null"
IsNumeric(c) == c.k \in {"int", "float"}
IsWhole(c) == c.n % c.d = 0

\* The number a numeric text denotes, as a float cell.
NumOfStr(s) ==
  LET u == Unsigned(s) IN
    IF IsIntStr(s) THEN FloatCell(Sign(s) * DigitsVal(u), 1)
    ELSE LET p == CHOOSE i \in DotAt(u) : TRUE
             frac == SubSeq(u, p + 1, Len(u))
         IN FloatCell(Sign(s) * DigitsVal(SubSeq(u, 1, p - 1) \o frac), Pow10(Len(frac)))

(***************************************************************************)
(* Configuration / column schema                                           *)
(***************************************************************************)
INJURY_COLS ==
  << "NUMBER OF PERSONS INJURED", "NUMBER OF PERSONS KILLED",
     "NUMBER OF PEDESTRIANS INJURED", "NUMBER OF PEDESTRIANS KILLED",
     "NUMBER OF CYCLIST INJURED", "NUMBER OF CYCLIST KILLED",
     "NUMBER OF MOTORIST INJURED", "NUMBER OF MOTORIST KILLED" >>

FACTOR_COLS ==
  << "CONTRIBUTING FACTOR VEHICLE 1", "CONTRIBUTING FACTOR VEHICLE 2",
     "CONTRIBUTING FACTOR VEHICLE 3", "CONTRIBUTING FACTOR VEHICLE 4",
     "CONTRIBUTING FACTOR VEHICLE 5" >>

TEXT_COLS ==
  << "BOROUGH" >> \o FACTOR_COLS
    \o << "ON STREET NAME", "CROSS STREET NAME", "OFF STREET NAME" >>

DATE_COLS == << "CRASH_DATE" >>
TIME_COLS == << "CRASH_TIME" >>
LOCATION_COLS == << "LATITUDE", "LONGITUDE" >>
UNIQUE_KEY_COL == "UNIQUE KEY"

Unspecified == <<"U", "n", "s", "p", "e", "c", "i", "f", "i", "e", "d">>
Unknown == <<"U", "n", "k", "n", "o", "w", "n">>
Manhattan == <<"M", "a", "n", "h", "a", "t", "t", "a", "n">>

(***************************************************************************)
(* DataFrames                                                              *)
(***************************************************************************)
Columns(df) == Range(df.cols)
NRows(df) == Len(df.rows)

\* ensure_columns_exist: the columns of cols the DataFrame has, in cols' order.
ensure_columns_exist(df, cols) == SelectSeq(cols, LAMBDA c : c \in Columns(df))

ColCells(df, c) == [i \in DOMAIN df.rows |-> df.rows[i][c]]

\* df[c] = <a new or replaced column>; a new column is appended.
SetCol(df, c, vals, dt) ==
  [cols  |-> IF c \in Columns(df) THEN df.cols ELSE Append(df.cols, c),
   dtype |-> [x \in Columns(df) \cup {c} |-> IF x = c THEN dt ELSE df.dtype[x]],
   rows  |-> [i \in DOMAIN df.rows |->
                [x \in Columns(df) \cup {c} |-> IF x = c THEN vals[i] ELSE df.rows[i][x]]]]


(***************************************************************************)
(* load_raw: pd.read_csv                                                   *)
(***************************************************************************)
\* Fields read_csv takes for missing (of pandas' default list).
NA_VALUES == { <<>>, <<"N", "A">>, <<"N", "a", "N">> }

\* A csv file is [cols, rows]: the header and, per line, one field per column.
CsvField(csv, i, j) == csv.rows[i][j]
CsvColDtype(csv, j) ==
  LET vals == {CsvField(csv, i, j) : i \in DOMAIN csv.rows} \ NA_VALUES
      anyNA == \E i \in DOMAIN csv.rows : CsvField(csv, i, j) \in NA_VALUES
  IN IF csv.rows = <<>> THEN "object"
     ELSE IF \A v \in vals : IsIntStr(v)
       THEN (IF anyNA THEN "float64" ELSE "int64")
     ELSE IF \A v \in vals : IsNumStr(v) THEN "float64"
     ELSE "object"
CsvCell(f, dt) ==
  IF f \in NA_VALUES THEN Null
  ELSE IF dt = "int64" THEN IntCell(NumOfStr(f).n)
  ELSE IF dt = "float64" THEN NumOfStr(f)
  ELSE StrCell(f)
read_csv(csv) ==
  LET J(c) == CHOOSE j \in DOMAIN csv.cols : csv.cols[j] = c IN
  [cols  |-> csv.cols,
   dtype |-> [c \in Range(csv.cols) |-> CsvColDtype(csv, J(c))],
   rows  |-> [i \in DOMAIN csv.rows |->
                [c \in Range(csv.cols) |-> CsvCell(CsvField(csv, i, J(c)), CsvColDtype(csv, J(c)))]]]

(***************************************************************************)
(* handle_missing_values                                                   *)
(***************************************************************************)
\* df.dropna(subset=cols)
dropna(df, cols) ==
  [df EXCEPT !.rows = SelectSeq(df.rows, LAMBDA r : \A c \in Range(cols) : ~IsNull(r[c]))]

FillZeroOff(df, c) == df
\* Series.fillna(0): the zero has the column's numeric type.
FillZero(df, c) ==
  SetCol(df, c,
         [i \in DOMAIN df.rows |->
            IF IsNull(df.rows[i][c])
              THEN (IF df.dtype[c] = "float64" THEN FloatCell(0, 1) ELSE IntCell(0))
              ELSE df.rows[i][c]],
         df.dtype[c])
\* df[injuries] = df[injuries].fillna(0)
RECURSIVE FillZeroAll(_, _)
FillZeroAll(df, cols) ==
  IF cols = <<>> THEN df ELSE FillZeroAll(FillZero(df, Head(cols)), Tail(cols))

\* Series.fillna("Unknown"): an all-missing (float64) column turns object.
FillUnknown(df, c) ==
  SetCol(df, c,
         [i \in DOMAIN df.rows |->
            IF IsNull(df.rows[i][c]) THEN StrCell(Unknown) ELSE df.rows[i][c]],
         IF df.dtype[c] = "float64" /\ df.rows # <<>> THEN "object" ELSE df.dtype[c])

MissingDropped(df) ==
  LET loc_cols == ensure_columns_exist(df, LOCATION_COLS) IN
    IF loc_cols # <<>> THEN dropna(df, loc_cols) ELSE df

handle_missing_values(df) ==
  LET d1 == MissingDropped(df)
      d2 == FillZeroAll(d1, ensure_columns_exist(d1, INJURY_COLS))
  IN IF "CONTRIBUTING FACTOR VEHICLE 1" \in Columns(d2)
       THEN FillUnknown(d2, "CONTRIBUTING FACTOR VEHICLE 1")
       ELSE d2

\* "[INFO] Dropped rows missing ...: {before - after} rows removed";
\* -1 stands for no such line.
RemovedReport(df) ==
  IF ensure_columns_exist(df, LOCATION_COLS) # <<>>
    THEN NRows(df) - NRows(MissingDropped(df))
    ELSE -1

(***************************************************************************)
(* correct_types                                                           *)
(***************************************************************************)
IsLeap(y) == (y % 4 = 0 /\ y % 100 # 0) \/ y % 400 = 0
DaysIn(m, y) ==
  IF m = 2 THEN (IF IsLeap(y) THEN 29 ELSE 28)
  ELSE IF m \in {4, 6, 9, 11} THEN 30 ELSE 31

\* A date text month/day/year, two, two and four digits.
IsDateStr(s) ==
  /\ Len(s) = 10
  /\ s[3] = "/" /\ s[6] = "/"
  /\ IsDigits(SubSeq(s, 1, 2)) /\ IsDigits(SubSeq(s, 4, 5)) /\ IsDigits(SubSeq(s, 7, 10))
  /\ LET m == DigitsVal(SubSeq(s, 1, 2))
         dd == DigitsVal(SubSeq(s, 4, 5))
         y == DigitsVal(SubSeq(s, 7, 10))
     IN m \in 1..12 /\ y >= 1 /\ dd \in 1..DaysIn(m, y)

\* pd.to_datetime(errors="coerce"), one cell: text that is no date turns
\* null; a (small) number counts nanoseconds from 1970-01-01.
ToDatetime(x) ==
  IF x.k = "date" THEN x
  ELSE IF x.k = "str" THEN
    (IF IsDateStr(x.s)
       THEN DateCell(DigitsVal(SubSeq(x.s, 7, 10)), DigitsVal(SubSeq(x.s, 1, 2)),
                     DigitsVal(SubSeq(x.s, 4, 5)))
       ELSE Null)
  ELSE IF IsNumeric(x) THEN DateCell(1970, 1, 1)
  ELSE Null

ColonAt(s) == {i \in DOMAIN s : s[i] = ":"}
\* "%H:%M": one or two digits, a colon, one or two digits, in range.
IsTimeStr(s) ==
  /\ Cardinality(ColonAt(s)) = 1
  /\ LET p == CHOOSE i \in ColonAt(s) : TRUE
         h == SubSeq(s, 1, p - 1)
         mi == SubSeq(s, p + 1, Len(s))
     IN /\ IsDigits(h) /\ Len(h) <= 2 /\ DigitsVal(h) <= 23
        /\ IsDigits(mi) /\ Len(mi) <= 2 /\ DigitsVal(mi) <= 59

\* pd.to_datetime(format="%H:%M", errors="coerce").dt.time, one cell.
ToTime(x) ==
  IF x.k = "str" /\ IsTimeStr(x.s)
    THEN LET p == CHOOSE i \in ColonAt(x.s) : TRUE IN
           TimeCell(DigitsVal(SubSeq(x.s, 1, p - 1)), DigitsVal(SubSeq(x.s, p + 1, Len(x.s))))
    ELSE Null

\* pd.to_numeric(errors="coerce"), one cell.
ToNumeric(x) ==
  IF IsNumeric(x) THEN x
  ELSE IF x.k = "str" /\ IsNumStr(x.s) THEN NumOfStr(x.s)
  ELSE Null

\* .astype("Int64") of a numeric column raises TypeError ("cannot safely
\* cast non-equivalent float64 to int64") when a value has a fraction.
AsInt64Raises(df, c) ==
  \E i \in DOMAIN df.rows :
     LET v == ToNumeric(df.rows[i][c]) IN ~IsNull(v) /\ ~IsWhole(v)
AsInt64(x) == LET v == ToNumeric(x) IN IF IsNull(v) THEN Null ELSE IntCell(v.n \div v.d)

correct_types_raises(df) ==
  \E c \in Range(ensure_columns_exist(df, INJURY_COLS)) : AsInt64Raises(df, c)

RECURSIVE DatesAll(_, _)
DatesAll(df, cols) ==
  IF cols = <<>> THEN df
  ELSE DatesAll(SetCol(df, Head(cols),
              [i \in DOMAIN df.rows |-> ToDatetime(df.rows[i][Head(cols)])], "datetime64"), Tail(cols))
RECURSIVE TimesAll(_, _)
TimesAll(df, cols) ==
  IF cols = <<>> THEN df
  ELSE TimesAll(SetCol(df, Head(cols),
              [i \in DOMAIN df.rows |-> ToTime(df.rows[i][Head(cols)])], "object"), Tail(cols))
RECURSIVE Int64All(_, _)
Int64All(df, cols) ==
  IF cols = <<>> THEN df
  ELSE Int64All(SetCol(df, Head(cols),
              [i \in DOMAIN df.rows |-> AsInt64(df.rows[i][Head(cols)])], "Int64"), Tail(cols))

\* The DataFrame correct_types returns when it does not raise.
correct_types(df) ==
  LET d1 == DatesAll(df, ensure_columns_exist(df, DATE_COLS))
      d2 == TimesAll(d1, ensure_columns_exist(d1, TIME_COLS))
      d3 == Int64All(d2, ensure_columns_exist(d2, INJURY_COLS))
  IN IF "BOROUGH" \in Columns(d3)
       THEN [d3 EXCEPT !.dtype = [@ EXCEPT !["BOROUGH"] = "category"]]
       ELSE d3

(***************************************************************************)
(* clean_text                                                              *)
(***************************************************************************)
RECURSIVE NatToStr(_)
NatToStr(n) ==
  IF n < 10 THEN << CharOrder[Ord("0") + n] >>
  ELSE NatToStr(n \div 10) \o << CharOrder[Ord("0") + (n % 10)] >>
Abs(n) == IF n < 0 THEN -n ELSE n
RECURSIVE ZeroPad(_, _)
ZeroPad(s, w) == IF Len(s) >= w THEN s ELSE ZeroPad(<<"0">> \o s, w)
RECURSIVE Log10(_)
Log10(d) == IF d <= 1 THEN 0 ELSE 1 + Log10(d \div 10)

\* str() of a value, as .astype("string") gives it.
AsString(x) ==
  IF x.k = "str" THEN x.s
  ELSE IF x.k = "int" THEN (IF x.n < 0 THEN <<"-">> ELSE <<>>) \o NatToStr(Abs(x.n))
  ELSE (IF x.n < 0 THEN <<"-">> ELSE <<>>)
         \o NatToStr(Abs(x.n) \div x.d) \o <<".">>
         \o (IF x.d = 1 THEN <<"0">> ELSE ZeroPad(NatToStr(Abs(x.n) % x.d), Log10(x.d)))

\* pd.api.types.is_string_dtype(df[c]).  For an object column pandas 2
\* answers whether every element is a str (a missing value is not), older
\* and newer versions answer True: build.strictStr says which.
is_string_dtype(df, c, strict) ==
  \/ df.dtype[c] = "string"
  \/ /\ df.dtype[c] = "object"
     /\ strict => (df.rows # <<>> /\ \A i \in DOMAIN df.rows : df.rows[i][c].k = "str")

\* df[c].astype("string").str.strip()
StripCol(df, c) ==
  SetCol(df, c,
         [i \in DOMAIN df.rows |->
            IF IsNull(df.rows[i][c]) THEN Null ELSE StrCell(StrStrip(AsString(df.rows[i][c])))],
         "string")

RECURSIVE StripAll(_, _, _)
StripAll(df, cols, strict) ==
  IF cols = <<>> THEN df
  ELSE LET c == Head(cols) IN
    StripAll(IF is_string_dtype(df, c, strict) \/ df.dtype[c] = "category"
               THEN StripCol(df, c) ELSE df,
             Tail(cols), strict)

\* Series.replace("Unspecified", pd.NA), one cell: the whole value is compared.
ReplaceUnspecifiedOff(x) == x
ReplaceUnspecified(x) == IF x.k = "str" /\ x.s = Unspecified THEN Null ELSE x

RECURSIVE ReplaceAll(_, _)
ReplaceAll(df, cols) ==
  IF cols = <<>> THEN df
  ELSE ReplaceAll(SetCol(df, Head(cols),
              [i \in DOMAIN df.rows |-> ReplaceUnspecified(df.rows[i][Head(cols)])], df.dtype[Head(cols)]), Tail(cols))

\* BOROUGH is of string dtype here: correct_types left it a category, and
\* the trimming loop turns a category (and a string column) into string.
TitleBorough(df) ==
  IF "BOROUGH" \in Columns(df)
    THEN SetCol(df, "BOROUGH",
                [i \in DOMAIN df.rows |->
                   IF df.rows[i]["BOROUGH"].k = "str"
                     THEN StrCell(StrTitle(df.rows[i]["BOROUGH"].s))
                     ELSE df.rows[i]["BOROUGH"]],
                df.dtype["BOROUGH"])
    ELSE df

\* The table after the trimming loop, before title-casing and replacement.
Trimmed(df, strict) == StripAll(df, ensure_columns_exist(df, TEXT_COLS), strict)

clean_text_replace_first(df, strict) ==
  LET d2 == ReplaceAll(df, ensure_columns_exist(df, FACTOR_COLS))
  IN TitleBorough(Trimmed(d2, strict))
clean_text(df, strict) ==
  LET d2 == TitleBorough(Trimmed(df, strict))
  IN ReplaceAll(d2, ensure_columns_exist(d2, FACTOR_COLS))

(***************************************************************************)
(* Grouping and sorting                                                    *)
(***************************************************************************)
\* The order of group keys: text by code point, numbers by value.
CellLess(a, b) ==
  IF a.k = "str" /\ b.k = "str" THEN StrLess(a.s, b.s)
  ELSE IF a.k = "str" \/ b.k = "str" THEN b.k = "str"
  ELSE a.n * b.d < b.n * a.d

RECURSIVE SortedCells(_)
SortedCells(S) ==
  IF S = {} THEN <<>>
  ELSE LET m == CHOOSE x \in S : \A y \in S \ {x} : CellLess(x, y)
       IN <<m>> \o SortedCells(S \ {m})

NonNullValues(df, c) == {df.rows[i][c] : i \in DOMAIN df.rows} \ {Null}
RowsWith(df, c, v) == {i \in DOMAIN df.rows : df.rows[i][c] = v}

\* df.groupby(c).size(): one entry per non-null value, keys ascending.
GroupSize(df, c) ==
  LET keys == SortedCells(NonNullValues(df, c)) IN
    [i \in DOMAIN keys |-> [key |-> keys[i], count |-> Cardinality(RowsWith(df, c, keys[i]))]]

RemoveAt(s, i) == SubSeq(s, 1, i - 1) \o SubSeq(s, i + 1, Len(s))
MaxCount(s) == CHOOSE m \in {s[i].count : i \in DOMAIN s} : \A i \in DOMAIN s : s[i].count <= m
SetMin(S) == CHOOSE m \in S : \A x \in S : m <= x
SetMax(S) == CHOOSE m \in S : \A x \in S : x <= m

\* Series.sort_values(ascending=False).  The default sort kind is quicksort,
\* which is not stable: where counts tie, the order is what the build's sort
\* gives.  build.stableSort: ties keep their order; otherwise they come out
\* reversed.
RECURSIVE sort_values_desc(_, _)
sort_values_desc(s, stable) ==
  IF s = <<>> THEN <<>>
  ELSE LET top == {i \in DOMAIN s : s[i].count = MaxCount(s)}
           i == IF stable THEN SetMin(top) ELSE SetMax(top)
       IN <<s[i]>> \o sort_values_desc(RemoveAt(s, i), stable)

\* Series.idxmax(): the key of the first entry holding the maximum.
idxmax(s) == s[SetMin({i \in DOMAIN s : s[i].count = MaxCount(s)})].key

(***************************************************************************)
(* filter_and_group                                                        *)
(***************************************************************************)
\* df[df["BOROUGH"] == "Manhattan"].shape[0]
ManhattanCount(df) == Cardinality(RowsWith(df, "BOROUGH", StrCell(Manhattan)))

\* df["YEAR"] = df["CRASH_DATE"].dt.year: float64 when a date is missing.
WithYear(df) ==
  LET dates == ColCells(df, "CRASH_DATE")
      anyNull == \E i \in DOMAIN dates : IsNull(dates[i])
      Y(x) == IF IsNull(x) THEN Null
              ELSE IF anyNull THEN FloatCell(x.n \div 10000, 1)
              ELSE IntCell(x.n \div 10000)
  IN SetCol(df, "YEAR", [i \in DOMAIN dates |-> Y(dates[i])],
            IF anyNull THEN "float64" ELSE "int32")

\* collisions_by_borough.csv
BoroughCounts(df, stable) == sort_values_desc(GroupSize(df, "BOROUGH"), stable)

\* collisions_by_year.csv
YearlyCounts(df) == GroupSize(df, "YEAR")

\* aggfunc="count" of one group: its rows whose UNIQUE KEY is not null.
PivotCountDistinct(df, y, b) ==
  Cardinality({df.rows[i][UNIQUE_KEY_COL] :
                 i \in RowsWith(df, "YEAR", y) \cap RowsWith(df, "BOROUGH", b)} \ {Null})
PivotCount(df, y, b) ==
  Cardinality({i \in RowsWith(df, "YEAR", y) \cap RowsWith(df, "BOROUGH", b) :
                 ~IsNull(df.rows[i][UNIQUE_KEY_COL])})

\* pivot_year_borough.csv: df.pivot_table(index="YEAR", columns="BOROUGH",
\* values=UNIQUE_KEY_COL, aggfunc="count").  A (year, borough) with no row
\* is an empty cell; a column with an empty cell holds floats.
Pivot(df) ==
  LET grp == {<<y, b>> \in NonNullValues(df, "YEAR") \X NonNullValues(df, "BOROUGH") :
                RowsWith(df, "YEAR", y) \cap RowsWith(df, "BOROUGH", b) # {}}
      ys == {g[1] : g \in grp}
      bs == {g[2] : g \in grp}
      Holes(b) == \E y \in ys : <<y, b>> \notin grp
  IN [index   |-> SortedCells(ys),
      columns |-> SortedCells(bs),
      cell    |-> [g \in ys \X bs |->
                     IF g \notin grp THEN Null
                     ELSE IF Holes(g[2]) THEN FloatCell(PivotCount(df, g[1], g[2]), 1)
                     ELSE IntCell(PivotCount(df, g[1], g[2]))]]

RECURSIVE SeqSum(_)
SeqSum(s) == IF s = <<>> THEN 0 ELSE Head(s) + SeqSum(Tail(s))

\* One entry of DataFrame.corr() (Pearson, pairwise complete rows): the
\* correlation is num / sqrt(dx * dy), and NaN when dx * dy = 0.
CorrEntry(df, a, b) ==
  LET rs == SelectSeq(df.rows, LAMBDA r : ~IsNull(r[a]) /\ ~IsNull(r[b]))
      n == Len(rs)
      sx == SeqSum([i \in DOMAIN rs |-> rs[i][a].n])
      sy == SeqSum([i \in DOMAIN rs |-> rs[i][b].n])
  IN [n   |-> n,
      num |-> n * SeqSum([i \in DOMAIN rs |-> rs[i][a].n * rs[i][b].n]) - sx * sy,
      dx  |-> n * SeqSum([i \in DOMAIN rs |-> rs[i][a].n * rs[i][a].n]) - sx * sx,
      dy  |-> n * SeqSum([i \in DOMAIN rs |-> rs[i][b].n * rs[i][b].n]) - sy * sy]

\* injury_correlation.csv
Corr(df) ==
  LET inj == Range(ensure_columns_exist(df, INJURY_COLS)) IN
    [p \in inj \X inj |-> CorrEntry(df, p[1], p[2])]

(***************************************************************************)
(* statistical_summaries                                                   *)
(***************************************************************************)
RECURSIVE SortedInts(_)
SortedInts(B) ==
  IF B = <<>> THEN <<>>
  ELSE LET m == SetMin(Range(B))
           i == SetMin({j \in DOMAIN B : B[j] = m})
       IN <<m>> \o SortedInts(RemoveAt(B, i))

\* Four times the k-th quartile (linear interpolation) of the sorted v.
Quartile4(v, k) ==
  LET pos == (Len(v) - 1) * k
      lo == pos \div 4
      r == pos % 4
  IN 4 * v[lo + 1] + (IF r = 0 THEN 0 ELSE r * (v[lo + 2] - v[lo + 1]))

\* One column of DataFrame.describe(): count, mean = sum / count,
\* std = sqrt(ss / (count * (count - 1))), min, quartiles (times 4), max.
DescribeCol(df, c) ==
  LET cells == SelectSeq(ColCells(df, c), LAMBDA x : ~IsNull(x))
      v == SortedInts([i \in DOMAIN cells |-> cells[i].n])
      n == Len(v)
  IN IF n = 0
       THEN [count |-> 0, sum |-> 0, ss |-> 0, min |-> 0, q1 |-> 0, q2 |-> 0, q3 |-> 0, max |-> 0]
       ELSE [count |-> n, sum |-> SeqSum(v),
             ss |-> n * SeqSum([i \in DOMAIN v |-> v[i] * v[i]]) - SeqSum(v) * SeqSum(v),
             min |-> v[1], q1 |-> Quartile4(v, 1), q2 |-> Quartile4(v, 2),
             q3 |-> Quartile4(v, 3), max |-> v[n]]

\* injury_describe.csv
Describe(df) ==
  [c \in Range(ensure_columns_exist(df, INJURY_COLS)) |-> DescribeCol(df, c)]

\* df["NUMBER OF PERSONS INJURED"] raises KeyError when some injury column
\* is present and this one is not.
statistical_summaries_raises(df) ==
  /\ ensure_columns_exist(df, INJURY_COLS) # <<>>
  /\ "NUMBER OF PERSONS INJURED" \notin Columns(df)

\* The values of a column in order of first appearance, null included.
RECURSIVE FirstSeen(_)
FirstSeen(s) ==
  IF s = <<>> THEN <<>>
  ELSE LET rest == FirstSeen(SubSeq(s, 1, Len(s) - 1)) IN
    IF s[Len(s)] \in Range(rest) THEN rest ELSE Append(rest, s[Len(s)])

\* Series.value_counts(dropna=False): counts by value, null included,
\* sorted by count descending (the same unstable sort).
value_counts(df, c, stable) ==
  LET keys == FirstSeen(ColCells(df, c)) IN
    sort_values_desc(
      [i \in DOMAIN keys |-> [key |-> keys[i], count |-> Cardinality(RowsWith(df, c, keys[i]))]],
      stable)

HeadN(s, n) == SubSeq(s, 1, IF Len(s) < n THEN Len(s) ELSE n)

\* top_contributing_factors_v1.csv
TopFactors(df, stable) ==
  HeadN(value_counts(df, "CONTRIBUTING FACTOR VEHICLE 1", stable), 20)

(***************************************************************************)
(* export_raw_and_clean                                                    *)
(***************************************************************************)
\* DataFrame.to_json(orient="records", lines=True): one object per row, its
\* members the columns in order (the dtypes are not part of the output).
to_json(df) ==
  [i \in DOMAIN df.rows |-> [j \in DOMAIN df.cols |-> <<df.cols[j], df.rows[i][df.cols[j]]>>]]

\* df.head(n)
head(df, n) == [df EXCEPT !.rows = HeadN(df.rows, n)]

(***************************************************************************)
(* Input files                                                             *)
(***************************************************************************)
MaxRows == 2
MaxBoroughRows == 3

\* The three crash records of the scenario, with a second injury column and
\* the crash time added.
BaseCols ==
  << "UNIQUE KEY", "BOROUGH", "LATITUDE", "LONGITUDE", "NUMBER OF PERSONS INJURED",
     "NUMBER OF PERSONS KILLED", "CONTRIBUTING FACTOR VEHICLE 1", "CRASH_DATE",
     "CRASH_TIME" >>
BaseRows ==
  << << <<"1">>,
        <<" ", "b", "r", "o", "o", "k", "l", "y", "n", " ">>,
        <<"4", "0", ".", "6">>,
        <<"-", "7", "3", ".", "9">>,
        <<>>,
        <<"0">>,
        <<"U", "n", "s", "p", "e", "c", "i", "f", "i", "e", "d">>,
        <<"0", "1", "/", "0", "2", "/", "2", "0", "2", "1">>,
        <<"1", "4", ":", "3", "0">> >>,
     << <<"2">>,
        <<>>,
        <<>>,
        <<>>,
        <<"2">>,
        <<"1">>,
        <<"D", "r", "i", "v", "e", "r", " ", "I", "n", "a", "t", "t", "e", "n", "t", "i", "o", "n">>,
        <<"0", "1", "/", "0", "3", "/", "2", "0", "2", "1">>,
        <<"2", "5", ":", "0", "0">> >>,
     << <<"3">>,
        <<"Q", "U", "E", "E", "N", "S">>,
        <<"4", "0", ".", "7">>,
        <<"-", "7", "3", ".", "8">>,
        <<"0">>,
        <<>>,
        <<>>,
        <<"0", "1", "/", "0", "2", "/", "2", "0", "2", "1">>,
        <<"9", ":", "0", "5">> >> >>

\* The base records restricted to the columns at the positions J.
Project(J) ==
  LET idx == SelectSeq([j \in DOMAIN BaseCols |-> j], LAMBDA j : j \in J) IN
    [cols |-> [k \in DOMAIN idx |-> BaseCols[idx[k]]],
     rows |-> [i \in DOMAIN BaseRows |-> [k \in DOMAIN idx |-> BaseRows[i][idx[k]]]]]

SchemaFiles == {Project(J) : J \in SUBSET DOMAIN BaseCols}

ScenarioCols ==
  << "UNIQUE KEY", "BOROUGH", "LATITUDE", "LONGITUDE", "NUMBER OF PERSONS INJURED",
     "CONTRIBUTING FACTOR VEHICLE 1", "CRASH_DATE" >>
ScenarioFile == Project({j \in DOMAIN BaseCols : BaseCols[j] \in Range(ScenarioCols)})

\* Every file of at most n records drawn from a pool of records.
Files(cols, pool, n) ==
  {[cols |-> cols, rows |-> rows] : rows \in UNION {[1..k -> pool] : k \in 0..n}}

LatFields == { <<"4", "0", ".", "6">>, <<>> }
InjuryFields == { <<>>, <<"2">>, <<"2", ".", "0">>, <<"1", ".", "5">>, <<"a", "b", "c">> }
InjuryFiles ==
  Files(<< "LATITUDE", "NUMBER OF PERSONS INJURED" >>, LatFields \X InjuryFields, MaxRows)

LonFields == { <<"-", "7", "3", ".", "9">>, <<>> }
GeoFiles == Files(<< "LATITUDE", "LONGITUDE" >>, LatFields \X LonFields, MaxRows)

Factor1Fields ==
  { <<"U", "n", "s", "p", "e", "c", "i", "f", "i", "e", "d">>,
    <<" ", "U", "n", "s", "p", "e", "c", "i", "f", "i", "e", "d", " ">>,
    <<"u", "n", "s", "p", "e", "c", "i", "f", "i", "e", "d">>,
    <<"U", "n", "s", "p", "e", "c", "i", "f", "i", "e", "d", " ", "D", "r", "i", "v", "e", "r">>,
    <<>> }
Factor2Fields ==
  { <<" ", "U", "n", "s", "p", "e", "c", "i", "f", "i", "e", "d">>,
    <<"U", "n", "s", "p", "e", "c", "i", "f", "i", "e", "d">>,
    <<>> }
FactorFiles ==
  Files(<< "CONTRIBUTING FACTOR VEHICLE 1", "CONTRIBUTING FACTOR VEHICLE 2" >>,
        Factor1Fields \X Factor2Fields, MaxRows)

BoroughFields ==
  { <<" ", "b", "r", "o", "n", "x">>,
    <<"Q", "U", "E", "E", "N", "S">>,
    <<"s", "t", "a", "t", "e", "n", " ", "i", "s", "l", "a", "n", "d">>,
    <<>> }
BoroughFiles == Files(<< "BOROUGH" >>, {<<b>> : b \in BoroughFields}, MaxBoroughRows)

KeyFields == { <<"1">>, <<>> }
PivotBoroughs == { <<"b", "r", "o", "n", "x">>, <<"Q", "U", "E", "E", "N", "S">> }
PivotDates ==
  { <<"0", "1", "/", "0", "2", "/", "2", "0", "2", "1">>,
    <<"0", "3", "/", "0", "4", "/", "2", "0", "2", "2">> }
PivotRecords ==
  (KeyFields \X PivotBoroughs \X PivotDates)
    \cup { << <<"2">>, <<"Q", "U", "E", "E", "N", "S">>,
              <<"0", "1", "/", "0", "2", "/", "2", "0", "2", "1">> >>,
           << <<"1">>, <<>>, <<"0", "1", "/", "0", "2", "/", "2", "0", "2", "1">> >>,
           << <<"1">>, <<"Q", "U", "E", "E", "N", "S">>, <<"n", "/", "a">> >> }
PivotFiles == Files(<< "UNIQUE KEY", "BOROUGH", "CRASH_DATE" >>, PivotRecords, MaxRows)

InputFiles ==
  SchemaFiles \cup InjuryFiles \cup GeoFiles \cup FactorFiles \cup BoroughFiles \cup PivotFiles

(***************************************************************************)
(* The run of main                                                         *)
(***************************************************************************)
VARIABLES
  csv,          \* the file at --input_csv
  build,        \* what the installed pandas/numpy do where the code leaves it open
  pc,           \* main's position
  aggPc,        \* filter_and_group's position
  statPc,       \* statistical_summaries' position
  df,           \* the DataFrame main passes from stage to stage
  prev,         \* the DataFrame the last stage was called with
  files,        \* the files under --outdir, by name
  removed,      \* the rows-removed count handle_missing_values printed
  mostCrashes,  \* "[STAT] Borough with most crashes", or Null when not printed
  warnings,     \* the names in the "[WARN] Skipping Parquet" lines
  exitCode,     \* the process's exit code, -1 while it runs
  error         \* the exception that ended the run and the stage that raised it

vars == << csv, build, pc, aggPc, statPc, df, prev, files, removed, mostCrashes,
           warnings, exitCode, error >>

NoFrame == [cols |-> <<>>, dtype |-> <<>>, rows |-> <<>>]

Put(fs, name, content) ==
  [x \in DOMAIN fs \cup {name} |-> IF x = name THEN content ELSE fs[x]]

Builds == [strictStr : BOOLEAN, stableSort : BOOLEAN]

Init ==
  /\ csv \in InputFiles
  /\ build \in Builds
  /\ pc = "load_raw"
  /\ aggPc = "year"
  /\ statPc = "describe"
  /\ df = NoFrame
  /\ prev = NoFrame
  /\ files = <<>>
  /\ removed = -1
  /\ mostCrashes = Null
  /\ warnings = <<>>
  /\ exitCode = -1
  /\ error = ""

\* An exception nothing catches: the traceback, exit code 1.
Raise(e) ==
  /\ pc' = "raised"
  /\ exitCode' = 1
  /\ error' = e

\* 1) load_raw, and the sample of the first 50 rows.
LoadRaw ==
  /\ pc = "load_raw"
  /\ df' = read_csv(csv)
  /\ files' = Put(files, "sample_head.csv", head(read_csv(csv), 50))
  /\ pc' = "handle_missing_values"
  /\ UNCHANGED << csv, build, aggPc, statPc, prev, removed, mostCrashes, warnings, exitCode, error >>

\* 2) df = handle_missing_values(df)
HandleMissingValues ==
  /\ pc = "handle_missing_values"
  /\ prev' = df
  /\ df' = handle_missing_values(df)
  /\ removed' = RemovedReport(df)
  /\ pc' = "correct_types"
  /\ UNCHANGED << csv, build, aggPc, statPc, files, mostCrashes, warnings, exitCode, error >>

\* 3) df = correct_types(df)
CorrectTypes ==
  /\ pc = "correct_types"
  /\ prev' = df
  /\ IF correct_types_raises(df)
       THEN Raise("TypeError in correct_types") /\ UNCHANGED df
       ELSE /\ df' = correct_types(df)
            /\ pc' = "clean_text"
            /\ UNCHANGED << exitCode, error >>
  /\ UNCHANGED << csv, build, aggPc, statPc, files, removed, mostCrashes, warnings >>

\* 4) df = clean_text(df)
CleanText ==
  /\ pc = "clean_text"
  /\ prev' = df
  /\ df' = clean_text(df, build.strictStr)
  /\ pc' = "analysis"
  /\ UNCHANGED << csv, build, aggPc, statPc, files, removed, mostCrashes, warnings, exitCode, error >>

\* 5) filter_and_group: the Manhattan filter (printed only) and
\* df["YEAR"], set on the DataFrame main holds.
AggYear ==
  /\ pc = "analysis" /\ aggPc = "year"
  /\ df' = IF "CRASH_DATE" \in Columns(df) THEN WithYear(df) ELSE df
  /\ aggPc' = "groups"
  /\ UNCHANGED << csv, build, pc, statPc, prev, files, removed, mostCrashes, warnings, exitCode, error >>

GroupFiles(d, stable) ==
  LET f1 == IF "BOROUGH" \in Columns(d)
              THEN Put(<<>>, "collisions_by_borough.csv", BoroughCounts(d, stable))
              ELSE <<>>
      f2 == IF "YEAR" \in Columns(d)
              THEN Put(f1, "collisions_by_year.csv", YearlyCounts(d))
              ELSE f1
  IN IF "YEAR" \in Columns(d) /\ "BOROUGH" \in Columns(d) /\ UNIQUE_KEY_COL \in Columns(d)
       THEN Put(f2, "pivot_year_borough.csv", Pivot(d))
       ELSE f2

Merge(fs, gs) == [x \in DOMAIN fs \cup DOMAIN gs |-> IF x \in DOMAIN gs THEN gs[x] ELSE fs[x]]

\* filter_and_group: the counts by borough and by year, and the pivot.
AggGroups ==
  /\ pc = "analysis" /\ aggPc = "groups"
  /\ files' = Merge(files, GroupFiles(df, build.stableSort))
  /\ aggPc' = "corr"
  /\ UNCHANGED << csv, build, pc, statPc, df, prev, removed, mostCrashes, warnings, exitCode, error >>

\* filter_and_group: the correlation matrix of the injury columns.
AggCorr ==
  /\ pc = "analysis" /\ aggPc = "corr"
  /\ files' = IF ensure_columns_exist(df, INJURY_COLS) # <<>>
                THEN Put(files, "injury_correlation.csv", Corr(df))
                ELSE files
  /\ aggPc' = "done"
  /\ UNCHANGED << csv, build, pc, statPc, df, prev, removed, mostCrashes, warnings, exitCode, error >>

\* 6) statistical_summaries: describe() and the mean of the persons-injured
\* column, which is looked up by name whenever any injury column exists.
StatDescribe ==
  /\ pc = "analysis" /\ statPc = "describe"
  /\ files' = IF ensure_columns_exist(df, INJURY_COLS) # <<>>
                THEN Put(files, "injury_describe.csv", Describe(df))
                ELSE files
  /\ IF statistical_summaries_raises(df)
       THEN Raise("KeyError in statistical_summaries") /\ UNCHANGED statPc
       ELSE statPc' = "factors" /\ UNCHANGED << pc, exitCode, error >>
  /\ UNCHANGED << csv, build, aggPc, df, prev, removed, mostCrashes, warnings >>

\* statistical_summaries: the top contributing factors.
StatFactors ==
  /\ pc = "analysis" /\ statPc = "factors"
  /\ files' = IF "CONTRIBUTING FACTOR VEHICLE 1" \in Columns(df)
                THEN Put(files, "top_contributing_factors_v1.csv",
                         TopFactors(df, build.stableSort))
                ELSE files
  /\ statPc' = "borough"
  /\ UNCHANGED << csv, build, pc, aggPc, df, prev, removed, mostCrashes, warnings, exitCode, error >>

\* statistical_summaries: the borough with the most crashes.
StatBorough ==
  /\ pc = "analysis" /\ statPc = "borough"
  /\ IF "BOROUGH" \in Columns(df) /\ GroupSize(df, "BOROUGH") # <<>>
       THEN /\ mostCrashes' = idxmax(GroupSize(df, "BOROUGH"))
            /\ files' = Put(files, "collisions_by_borough_full.csv", GroupSize(df, "BOROUGH"))
       ELSE UNCHANGED << mostCrashes, files >>
  /\ statPc' = "done"
  /\ UNCHANGED << csv, build, pc, aggPc, df, prev, removed, warnings, exitCode, error >>

\* 7) export_raw_and_clean: the raw file is read again and written as JSON.
ExportRawJson ==
  /\ pc = "analysis" /\ aggPc = "done" /\ statPc = "done"
  /\ files' = Put(files, "collisions_raw.json", to_json(read_csv(csv)))
  /\ pc' = "raw_parquet"
  /\ UNCHANGED << csv, build, aggPc, statPc, df, prev, removed, mostCrashes, warnings, exitCode, error >>

safe_to_parquet_silent(d, name) ==
  \/ /\ files' = Put(files, name, d)
     /\ UNCHANGED warnings
  \/ UNCHANGED << files, warnings >>
\* safe_to_parquet: the write succeeds, or its exception is caught and a
\* warning names the file.
safe_to_parquet(d, name) ==
  \/ /\ files' = Put(files, name, d)
     /\ UNCHANGED warnings
  \/ /\ warnings' = Append(warnings, name)
     /\ UNCHANGED files

ExportRawParquet ==
  /\ pc = "raw_parquet"
  /\ safe_to_parquet(read_csv(csv), "collisions_raw.parquet")
  /\ pc' = "clean_json"
  /\ UNCHANGED << csv, build, aggPc, statPc, df, prev, removed, mostCrashes, exitCode, error >>

ExportCleanJson ==
  /\ pc = "clean_json"
  /\ files' = Put(files, "collisions_clean.json", to_json(df))
  /\ pc' = "clean_parquet"
  /\ UNCHANGED << csv, build, aggPc, statPc, df, prev, removed, mostCrashes, warnings, exitCode, error >>

\* The last statement of export_raw_and_clean; main prints [DONE] and
\* returns None, and sys.exit(None) exits 0.
ExportCleanParquet ==
  /\ pc = "clean_parquet"
  /\ safe_to_parquet(df, "collisions_clean.parquet")
  /\ pc' = "done"
  /\ exitCode' = 0
  /\ UNCHANGED << csv, build, aggPc, statPc, df, prev, removed, mostCrashes, error >>

\* main: filter_and_group runs to its end before statistical_summaries starts.
Next ==
  \/ LoadRaw
  \/ HandleMissingValues
  \/ CorrectTypes
  \/ CleanText
  \/ AggYear
  \/ AggGroups
  \/ AggCorr
  \/ (aggPc = "done" /\ StatDescribe)
  \/ (aggPc = "done" /\ StatFactors)
  \/ (aggPc = "done" /\ StatBorough)
  \/ ExportRawJson
  \/ ExportRawParquet
  \/ ExportCleanJson
  \/ ExportCleanParquet

Spec == Init /\ [][Next]_vars

\* The two stages between clean_text and the export in either order, or
\* with their steps interleaved.
NextAnyOrder ==
  \/ LoadRaw
  \/ HandleMissingValues
  \/ CorrectTypes
  \/ CleanText
  \/ AggYear
  \/ AggGroups
  \/ AggCorr
  \/ StatDescribe
  \/ StatFactors
  \/ StatBorough
  \/ ExportRawJson
  \/ ExportRawParquet
  \/ ExportCleanJson
  \/ ExportCleanParquet

SpecAnyOrder == Init /\ [][NextAnyOrder]_vars

(***************************************************************************)
(* Properties                                                              *)
(***************************************************************************)
JsonNames == {"collisions_raw.json", "collisions_clean.json"}
ParquetNames == {"collisions_raw.parquet", "collisions_clean.parquet"}
Written(name) == name \in DOMAIN files
Warned(name) == Cardinality({i \in DOMAIN warnings : warnings[i] = name})

\* C1: whatever parquet writes fail (the raw one, the cleaned one or both),
\* export_raw_and_clean writes both JSON exports with the tables' content,
\* warns exactly once for each parquet file it could not write, raises
\* nothing, and the run ends with exit code 0.
DegradeGracefully ==
  /\ pc \in {"raw_parquet", "clean_json", "clean_parquet", "done"} =>
       /\ Written("collisions_raw.json")
       /\ files["collisions_raw.json"] = to_json(read_csv(csv))
  /\ pc \in {"clean_parquet", "done"} =>
       /\ Written("collisions_clean.json")
       /\ files["collisions_clean.json"] = to_json(df)
  /\ pc \in {"clean_json", "clean_parquet", "done"} =>
       Warned("collisions_raw.parquet") = (IF Written("collisions_raw.parquet") THEN 0 ELSE 1)
  /\ pc = "done" =>
       /\ Warned("collisions_clean.parquet") = (IF Written("collisions_clean.parquet") THEN 0 ELSE 1)
       /\ exitCode = 0
  /\ pc = "raised" => \A name \in JsonNames \cup ParquetNames : ~Written(name)

\* C1 witness: a finished run in which both parquet writes failed.
BothParquetFailed ==
  /\ pc = "done" /\ exitCode = 0
  /\ warnings = << "collisions_raw.parquet", "collisions_clean.parquet" >>
  /\ Written("collisions_raw.json") /\ Written("collisions_clean.json")
  /\ ~Written("collisions_raw.parquet") /\ ~Written("collisions_clean.parquet")

\* C2: whatever subset of the role columns the input has, no stage raises
\* and the run ends with exit code 0.
SchemaTolerant ==
  csv \in SchemaFiles => /\ pc # "raised"
                         /\ pc = "done" => exitCode = 0

InjuryCells(d) ==
  {d.rows[i][c] : i \in DOMAIN d.rows, c \in Range(ensure_columns_exist(d, INJURY_COLS))}

\* C3: correct_types raises for no injury cell, and leaves every injury
\* cell an integer or null, null where the value was no number.
InjuryCoercionTotal ==
  /\ error # "TypeError in correct_types"
  /\ pc = "clean_text" =>
       /\ \A x \in InjuryCells(df) : x.k \in {"int", "null"}
       /\ \A i \in DOMAIN df.rows : \A c \in Range(ensure_columns_exist(df, INJURY_COLS)) :
            IsNull(ToNumeric(prev.rows[i][c])) => IsNull(df.rows[i][c])

\* The rows of d, by position, that have no null in a geolocation column.
LocatedRows(d) ==
  SelectSeq([i \in DOMAIN d.rows |-> i],
            LAMBDA i : \A c \in Range(ensure_columns_exist(d, LOCATION_COLS)) :
                          ~IsNull(d.rows[i][c]))
IsZero(x) == IsNumeric(x) /\ x.n = 0

\* C4: after handle_missing_values no row has a null in a geolocation
\* column that is present and no injury cell is null (a null one holds 0);
\* the rows kept are exactly the rows that had no null geolocation cell, in
\* order, and the count reported is the number of the others.
MissingValuesHandled ==
  pc = "correct_types" =>
    /\ \A i \in DOMAIN df.rows : \A c \in Range(ensure_columns_exist(df, LOCATION_COLS)) :
         ~IsNull(df.rows[i][c])
    /\ \A x \in InjuryCells(df) : ~IsNull(x)
    /\ NRows(df) = Len(LocatedRows(prev))
    /\ \A k \in DOMAIN df.rows :
         LET old == prev.rows[LocatedRows(prev)[k]] IN
           /\ \A c \in Range(ensure_columns_exist(df, LOCATION_COLS)) : df.rows[k][c] = old[c]
           /\ \A c \in Range(ensure_columns_exist(df, INJURY_COLS)) :
                IF IsNull(old[c]) THEN IsZero(df.rows[k][c]) ELSE df.rows[k][c] = old[c]
    /\ ensure_columns_exist(prev, LOCATION_COLS) # <<>> =>
         removed = NRows(prev) - Len(LocatedRows(prev))
    /\ ensure_columns_exist(prev, LOCATION_COLS) = <<>> => removed = -1

\* C4 witness: a row was removed for its null geolocation and a null
\* injury cell was set to 0 in a row that stayed.
RowDroppedAndCellFilled ==
  /\ pc = "correct_types"
  /\ removed > 0
  /\ \E k \in DOMAIN df.rows : \E c \in Range(ensure_columns_exist(df, INJURY_COLS)) :
       IsNull(prev.rows[LocatedRows(prev)[k]][c]) /\ IsZero(df.rows[k][c])

\* clean_text has just returned: prev is its argument, df its result.
AfterCleanText == pc = "analysis" /\ aggPc = "year" /\ statPc = "describe"

FactorsOf(d) == Range(ensure_columns_exist(d, FACTOR_COLS))

CleanTextIdempotent ==
  AfterCleanText => clean_text(df, build.strictStr) = df

\* C6 witness: the first application trimmed and title-cased a borough and
\* replaced an "Unspecified".
CleanTextChangedTable ==
  /\ AfterCleanText
  /\ "BOROUGH" \in Columns(df)
  /\ \E i \in DOMAIN df.rows :
       /\ prev.rows[i]["BOROUGH"].k = "str"
       /\ df.rows[i]["BOROUGH"].s # prev.rows[i]["BOROUGH"].s
       /\ Len(df.rows[i]["BOROUGH"].s) < Len(prev.rows[i]["BOROUGH"].s)
  /\ \E i \in DOMAIN df.rows : \E c \in FactorsOf(df) :
       ~IsNull(prev.rows[i][c]) /\ IsNull(df.rows[i][c])

\* C7: the borough statistical_summaries prints as having the most crashes
\* is the first entry of collisions_by_borough.csv.
MostCrashesIsFirst ==
  (pc = "analysis" /\ statPc = "done" /\ mostCrashes # Null
     /\ Written("collisions_by_borough.csv"))
    => mostCrashes = files["collisions_by_borough.csv"][1].key

PivotWritten == Written("pivot_year_borough.csv")
PivotCells == DOMAIN files["pivot_year_borough.csv"].cell
PivotValue(g) == files["pivot_year_borough.csv"].cell[g]
GroupRows(g) ==
  {i \in DOMAIN df.rows : df.rows[i]["YEAR"] = g[1] /\ df.rows[i]["BOROUGH"] = g[2]}

\* C8 as stated: each cell of the pivot is the number of distinct
\* identifier values among the rows of its year and borough.
PivotCountsDistinctKeys ==
  PivotWritten =>
    \A g \in PivotCells :
      ~IsNull(PivotValue(g)) =>
        PivotValue(g).n = Cardinality({df.rows[i][UNIQUE_KEY_COL] : i \in GroupRows(g)} \ {Null})

\* C8 as amended: each cell of the pivot is the number of rows of its year
\* and borough whose identifier is not null, a repeated identifier counted
\* once per row; a year and borough with no row at all is an empty cell.
PivotCountsRows ==
  PivotWritten =>
    \A g \in PivotCells :
      IF GroupRows(g) = {} THEN IsNull(PivotValue(g))
      ELSE /\ IsNumeric(PivotValue(g))
           /\ PivotValue(g).d = 1
           /\ PivotValue(g).n =
                Cardinality({i \in GroupRows(g) : df.rows[i][UNIQUE_KEY_COL] # Null})

\* C8 witness: a pivot cell 2 for two rows that carry the same identifier.
PivotCountedDuplicate ==
  /\ PivotWritten
  /\ \E g \in PivotCells :
       /\ PivotValue(g).n = 2
       /\ Cardinality(GroupRows(g)) = 2
       /\ Cardinality({df.rows[i][UNIQUE_KEY_COL] : i \in GroupRows(g)}) = 1

Brooklyn == <<"B", "r", "o", "o", "k", "l", "y", "n">>
Queens == <<"Q", "u", "e", "e", "n", "s">>
IsScenario == csv = ScenarioFile
Keys(d) == [i \in DOMAIN d.rows |-> d.rows[i][UNIQUE_KEY_COL]]

\* C9: on the three scenario records the stages in main's order drop the
\* second record and keep the first and third; the first record's borough
\* becomes "Brooklyn" and its first contributing factor null; both years
\* are 2021; the counts by year are {2021: 2} and the counts by borough
\* {"Brooklyn": 1, "Queens": 1}.
ScenarioOutcome ==
  /\ IsScenario /\ pc \in {"correct_types", "clean_text", "analysis"} =>
       Keys(df) = << IntCell(1), IntCell(3) >>
  /\ IsScenario /\ pc = "analysis" =>
       /\ df.rows[1]["BOROUGH"] = StrCell(Brooklyn)
       /\ df.rows[1]["CONTRIBUTING FACTOR VEHICLE 1"] = Null
  /\ IsScenario /\ pc = "analysis" /\ aggPc # "year" =>
       /\ df.rows[1]["YEAR"] = IntCell(2021)
       /\ df.rows[2]["YEAR"] = IntCell(2021)
  /\ IsScenario /\ pc = "analysis" /\ aggPc \in {"corr", "done"} =>
       /\ files["collisions_by_year.csv"] = << [key |-> IntCell(2021), count |-> 2] >>
       /\ Range(files["collisions_by_borough.csv"]) =
            { [key |-> StrCell(Brooklyn), count |-> 1], [key |-> StrCell(Queens), count |-> 1] }
       /\ Len(files["collisions_by_borough.csv"]) = 2

\* C9 witness: the scenario's run with filter_and_group at its end.
ScenarioAggregated ==
  IsScenario /\ pc = "analysis" /\ aggPc = "done" /\ removed = 1

AggNames ==
  { "collisions_by_borough.csv", "collisions_by_year.csv", "pivot_year_borough.csv",
    "injury_correlation.csv" }
StatNames ==
  { "injury_describe.csv", "top_contributing_factors_v1.csv", "collisions_by_borough_full.csv" }

\* What the two stages write when filter_and_group runs to its end and then
\* statistical_summaries does, from the table clean_text returned.
Normalized == clean_text(prev, build.strictStr)
NormalizedWithYear ==
  IF "CRASH_DATE" \in Columns(Normalized) THEN WithYear(Normalized) ELSE Normalized
AggExpected ==
  LET g == GroupFiles(NormalizedWithYear, build.stableSort) IN
    IF ensure_columns_exist(Normalized, INJURY_COLS) # <<>>
      THEN Put(g, "injury_correlation.csv", Corr(Normalized))
      ELSE g
StatExpected ==
  LET f1 == IF ensure_columns_exist(Normalized, INJURY_COLS) # <<>>
              THEN Put(<<>>, "injury_describe.csv", Describe(Normalized))
              ELSE <<>>
      f2 == IF "CONTRIBUTING FACTOR VEHICLE 1" \in Columns(Normalized)
              THEN Put(f1, "top_contributing_factors_v1.csv",
                       TopFactors(Normalized, build.stableSort))
              ELSE f1
  IN IF "BOROUGH" \in Columns(Normalized) /\ GroupSize(Normalized, "BOROUGH") # <<>>
       THEN Put(f2, "collisions_by_borough_full.csv", GroupSize(Normalized, "BOROUGH"))
       ELSE f2
Same(names, expected) ==
  \A name \in names :
    /\ Written(name) <=> name \in DOMAIN expected
    /\ Written(name) => files[name] = expected[name]

\* C10: whichever order the steps of filter_and_group and
\* statistical_summaries are taken in, once no step of either is left to
\* run the files of filter_and_group are those it writes when it runs
\* first, the files of a statistical_summaries that returned are those it
\* writes when it runs second, the cleaned export is the same, and the two
\* stages write no file in common.
OrderIndependent ==
  /\ AggNames \cap StatNames = {}
  /\ pc \in {"analysis", "raw_parquet", "clean_json", "clean_parquet", "done"} =>
       /\ DOMAIN AggExpected \subseteq AggNames
       /\ DOMAIN StatExpected \subseteq StatNames
  /\ \/ pc \in {"raw_parquet", "clean_json", "clean_parquet", "done"}
     \/ pc = "raised" /\ error = "KeyError in statistical_summaries"
     => Same(AggNames, AggExpected)
  /\ pc \in {"raw_parquet", "clean_json", "clean_parquet", "done"} => Same(StatNames, StatExpected)
  /\ pc = "done" => files["collisions_clean.json"] = to_json(NormalizedWithYear)


\* C11: the table export_raw_and_clean is given, and writes as the cleaned
\* export, has exactly the columns, the column order, the rows and the cell
\* values of the table clean_text returned: filter_and_group and
\* statistical_summaries added, removed and altered nothing.
CleanExportIsNormalized ==
  /\ pc \in {"raw_parquet", "clean_json", "clean_parquet", "done"} =>
       /\ df.cols = Normalized.cols
       /\ df.rows = Normalized.rows
  /\ Written("collisions_clean.json") =>
       files["collisions_clean.json"] = to_json(Normalized)
  /\ Written("collisions_clean.parquet") =>
       /\ files["collisions_clean.parquet"].cols = Normalized.cols
       /\ files["collisions_clean.parquet"].rows = Normalized.rows

\* The text-role cells of d that hold a value: <<row, column>>.
TextCells(d) ==
  {<<i, c>> \in (DOMAIN d.rows) \X Range(ensure_columns_exist(d, TEXT_COLS)) :
     ~IsNull(d.rows[i][c])}

\* C12: after clean_text no non-null cell of a text-role column present
\* begins or ends with whitespace, whatever dtype the column has and
\* whether or not it holds nulls, and every non-null borough is title-cased.
TextNormalized ==
  AfterCleanText =>
    /\ \A t \in TextCells(df) :
         df.rows[t[1]][t[2]].k = "str" =>
           StrStrip(df.rows[t[1]][t[2]].s) = df.rows[t[1]][t[2]].s
    /\ \A t \in TextCells(df) :
         t[2] = "BOROUGH" =>
           /\ df.rows[t[1]][t[2]].k = "str"
           /\ StrTitle(df.rows[t[1]][t[2]].s) = df.rows[t[1]][t[2]].s
=============================================================================
